---- MODULE Spec2Model ----
(***************************************************************************)
(* Travel assistant: the LangGraph workflow of src/graph (six stage nodes, *)
(* one conditional edge, a MemorySaver checkpointer keyed by thread id)    *)
(* driven by the Streamlit sessions of src/ui/app.py.                      *)
(*                                                                         *)
(* Conventions.  Optional[T] is modelled as a set: {} is None and {x} is   *)
(* the value x.  Floats are scaled integers (distance 0.43 is 43,          *)
(* temperature 8.5 is 85, humidity 72.0 is 720).  Strings of the program   *)
(* are TLA+ strings; the string functions used by the code (strip, lower,  *)
(* title) are tables over the strings the model enumerates.                *)
(***************************************************************************)
EXTENDS Integers, Sequences, FiniteSets, TLC

(***************************************************************************)
(* Bounds of the model.                                                    *)
(***************************************************************************)
MaxTurns == 2       \* user queries of the conversation Spec follows
MaxRuns == 3        \* graph runs started by all sessions of SpecThreads
MaxCalls == 2       \* tool invocations in one assistant message
MaxClock == 2       \* seconds of wall clock the session ids are drawn from

\* Browser sessions; they share the cached graph and its MemorySaver.
Sessions == { 1, 2 }
ThreadIds == 1..MaxClock

VARIABLES
    clock,      \* int(datetime.now().timestamp()), app.py:43
    tid,        \* st.session_state.thread_id of each session ({} before init)
    ui,         \* number of user entries in st.session_state.messages
    pc,         \* where each session's graph run stands
    st,         \* the AgentState threaded through the run of each session
    ckpt,       \* MemorySaver: thread id -> last checkpointed AgentState
    fan,        \* the asyncio.gather batch of the current turn ({} if none)
    ran,        \* stages that have returned in the current turn, in order
    ev,         \* external calls made in the current turn (observations)
    turns       \* turns started by each session

vars == <<clock, tid, ui, pc, st, ckpt, fan, ran, ev, turns>>

(***************************************************************************)
(* Optional values.                                                        *)
(***************************************************************************)
None == {}
Some(x) == {x}
Get(o) == CHOOSE x \in o : TRUE

\* Python truthiness of an Optional[bool], Optional[str], Optional[list].
TruthyBool(o) == o = Some(TRUE)
TruthyStr(o) == o # None /\ o # Some("")
TruthySeq(o) == o # None /\ o # Some(<<>>)

(***************************************************************************)
(* AgentState, src/graph/state.py.                                         *)
(***************************************************************************)
AgentState(msgs) ==
    [ messages |-> msgs,
      city_name |-> None,
      vector_store_match |-> None,
      cache_hit |-> None,
      city_summary |-> None,
      weather_data |-> None,
      image_urls |-> None,
      final_output |-> None,
      error_message |-> None ]

StructuredOutput(summary, weather, images) ==
    [ city_summary |-> summary, weather_forecast |-> weather, image_urls |-> images ]

HumanMessage(c) ==
    [ role |-> "human", content |-> c, tool_calls |-> <<>>, tool_call_id |-> 0, name |-> "" ]

AIMessage(calls) ==
    [ role |-> "ai", content |-> <<"assistant">>, tool_calls |-> calls, tool_call_id |-> 0, name |-> "" ]

ToolMessage(id, nm, c) ==
    [ role |-> "tool", content |-> c, tool_calls |-> <<>>, tool_call_id |-> id, name |-> nm ]

\* app.py builds the input from the user entries of the transcript only.
HumanMessages(n) == [ i \in 1..n |-> HumanMessage(<<"query", i>>) ]

(***************************************************************************)
(* Strings.  The extraction reply is cleaned by strip().strip(".").strip() *)
(* and compared in lower case; the entity is stored in title case.         *)
(***************************************************************************)
RawExtractions == { "Paris", " paris. ", "atlantis", "Lyon", "None", "UNKNOWN.", "" }

Strip(r) ==
    CASE r = " paris. " -> "paris"
      [] r = "UNKNOWN." -> "UNKNOWN"
      [] OTHER -> r

Lower(x) ==
    CASE x = "Paris" -> "paris"
      [] x = "Atlantis" -> "atlantis"
      [] x = "None" -> "none"
      [] x = "UNKNOWN" -> "unknown"
      [] x = "Unknown" -> "unknown"
      [] OTHER -> x

Title(x) ==
    CASE x = "paris" -> "Paris"
      [] x = "atlantis" -> "Atlantis"
      [] x = "none" -> "None"
      [] x = "unknown" -> "Unknown"
      [] x = "UNKNOWN" -> "Unknown"
      [] OTHER -> x

(***************************************************************************)
(* Knowledge store, src/vector_store/setup.py.  The collection is filled   *)
(* once (Paris, Tokyo, New York) and never changed, so a query always has  *)
(* a nearest document; io_ok = FALSE is a query that raises.               *)
(***************************************************************************)
Threshold == 50

\* Cosine distance (x100) of the nearest stored document; Lyon stands for
\* a query whose nearest document lies exactly at the cutoff.
NearestDistance(city) ==
    CASE city = "Paris" -> 43
      [] city = "Lyon" -> 50
      [] OTHER -> 64

NearestDocument(city) ==
    CASE city = "Paris" -> "fact:Paris"
      [] OTHER -> "fact:Tokyo"

\* Faulty variant of query_vector_store: a distance equal to the cutoff is
\* accepted.
QueryAtOrBelow(city, threshold, io_ok) ==
    IF ~io_ok THEN FALSE ELSE NearestDistance(city) <= threshold

query_vector_store(city, threshold, io_ok) ==
    IF ~io_ok THEN FALSE ELSE NearestDistance(city) < threshold

get_city_fact(city, io_ok) ==
    IF ~io_ok THEN "" ELSE NearestDocument(city)

(***************************************************************************)
(* Tools, src/graph/tools.py and src/mock_apis.  A result is tagged with   *)
(* its Python type; an exception is the value gather(return_exceptions)    *)
(* puts in the result list.                                                *)
(***************************************************************************)
ToolNames == { "get_weather", "get_images", "web_search", "get_hotels" }
ToolArgs == { "Paris", "Atlantis" }

Pending == [ type |-> "pending", elem |-> "", val |-> <<>> ]
Exc(msg) == [ type |-> "exception", elem |-> "", val |-> msg ]
\* elem tells what the items are: "model" (WeatherDataPoint) or "str".
ListResult(elem, l) == [ type |-> "list", elem |-> elem, val |-> l ]
StrResult(x) == [ type |-> "str", elem |-> "", val |-> x ]

ParisTemperature == <<85, 72, 91, 68, 55, 63, 78>>
ParisCondition == <<"Cloudy", "Rainy", "Partly Cloudy", "Clear", "Cold", "Overcast", "Cloudy">>
ParisHumidity == <<720, 850, 680, 550, 480, 620, 700>>
FallbackCondition == <<"Sunny", "Cloudy", "Rainy">>

WeatherDataPoint(d, t, c, h) ==
    [ date |-> d, temperature |-> t, condition |-> c, humidity |-> h ]

\* Seven points dated tomorrow .. in seven days; the lookup is by exact key.
fetch_weather_forecast(city) ==
    IF city = "Paris"
    THEN [ i \in 1..7 |->
             WeatherDataPoint(i, ParisTemperature[i], ParisCondition[i], ParisHumidity[i]) ]
    ELSE [ i \in 1..7 |->
             WeatherDataPoint(i, 150 + 10 * ((i - 1) % 3),
                              FallbackCondition[((i - 1) % 3) + 1],
                              600 + ((i - 1) % 2) * 100) ]

\* Faulty variant of fetch_city_images: a gallery of two URLs.
FetchTwoImages(city) ==
    IF Lower(city) = "paris"
    THEN [ i \in 1..2 |-> <<"wikimedia", "Paris", i>> ]
    ELSE [ i \in 1..2 |-> <<"placehold", city, i>> ]

\* Three URLs; the lookup ignores case, unknown cities get placeholders.
fetch_city_images(city) ==
    IF Lower(city) = "paris"
    THEN [ i \in 1..3 |-> <<"wikimedia", "Paris", i>> ]
    ELSE [ i \in 1..3 |-> <<"placehold", city, i>> ]

\* Faulty variant of execute_tool: a name outside the catalogue is served
\* by the web search.
ExecuteToolDefaultsToSearch(tool_name, arg, ok) ==
    CASE tool_name = "get_weather" ->
           IF ok THEN ListResult("model", fetch_weather_forecast(arg)) ELSE Exc(<<"timeout", tool_name>>)
      [] tool_name = "get_images" ->
           IF ok THEN ListResult("str", fetch_city_images(arg)) ELSE Exc(<<"timeout", tool_name>>)
      [] OTHER ->
           IF ok THEN StrResult(<<"Search results for", arg>>) ELSE Exc(<<"timeout", tool_name>>)

execute_tool(tool_name, arg, ok) ==
    CASE tool_name = "get_weather" ->
           IF ok THEN ListResult("model", fetch_weather_forecast(arg)) ELSE Exc(<<"timeout", tool_name>>)
      [] tool_name = "get_images" ->
           IF ok THEN ListResult("str", fetch_city_images(arg)) ELSE Exc(<<"timeout", tool_name>>)
      [] tool_name = "web_search" ->
           IF ok THEN StrResult(<<"Search results for", arg>>) ELSE Exc(<<"timeout", tool_name>>)
      [] OTHER -> Exc(<<"Unknown tool", tool_name>>)

\* json.dumps: the text is modelled by the JSON value it denotes; a float
\* is written by its repr, the whole part and the fraction digit ("8.5").
JsonObject(fields) == <<"object", fields>>
JsonArray(items) == <<"array", items>>
JsonString(x) == <<"string", x>>

\* Faulty variant of JsonNumber: the float is written as an integer.
JsonNumberTruncated(x) == <<"number", x \div 10, 0>>

JsonNumber(x) == <<"number", x \div 10, x % 10>>

\* A tool-invocation request of an assistant message.
ToolCall(id, nm, arg) == [ id |-> id, name |-> nm, args |-> arg ]

(***************************************************************************)
(* Stage 1, node_classify_query.  raw is the extraction reply.             *)
(***************************************************************************)
Sentinels == { "unknown", "none", "" }

\* Faulty variant of ReusePrevious: the follow-up branch also forgets the
\* cache status, like the other two branches.
ReusePreviousClearsCache(state) ==
    [ state EXCEPT !.weather_data = Some(<<>>),
                   !.image_urls = Some(<<>>),
                   !.city_summary = None,
                   !.vector_store_match = Some(FALSE),
                   !.cache_hit = Some(FALSE) ]

\* Faulty variant of ReusePrevious: the follow-up branch clears nothing.
ReusePreviousKeepsFetched(state) == state

\* nodes.py 65-66: the follow-up branch clears the fetched fields only.
ReusePrevious(state) ==
    [ state EXCEPT !.weather_data = Some(<<>>),
                   !.image_urls = Some(<<>>) ]

\* Faulty variant of ClearDerived: a new entity also forgets the last error.
ClearDerivedResetsError(state) ==
    [ state EXCEPT !.weather_data = Some(<<>>),
                   !.image_urls = Some(<<>>),
                   !.city_summary = None,
                   !.final_output = None,
                   !.vector_store_match = Some(FALSE),
                   !.cache_hit = Some(FALSE),
                   !.error_message = None ]

\* Faulty variant of ClearDerived: the previous answer is kept.
ClearDerivedKeepsOutput(state) ==
    [ state EXCEPT !.weather_data = Some(<<>>),
                   !.image_urls = Some(<<>>),
                   !.city_summary = None,
                   !.vector_store_match = Some(FALSE),
                   !.cache_hit = Some(FALSE) ]

\* nodes.py 72-77 and 81-86: both other branches clear every derived field.
ClearDerived(state) ==
    [ state EXCEPT !.weather_data = Some(<<>>),
                   !.image_urls = Some(<<>>),
                   !.city_summary = None,
                   !.final_output = None,
                   !.vector_store_match = Some(FALSE),
                   !.cache_hit = Some(FALSE) ]

Reuses(state, raw) ==
    /\ Lower(Strip(raw)) \in Sentinels
    /\ TruthyStr(state.city_name)
    /\ state.city_name # Some("Unknown")

node_classify_query(state, raw) ==
    LET destination == Strip(raw)
        previous_city == state.city_name
    IN  IF Lower(destination) \in Sentinels
        THEN IF TruthyStr(previous_city) /\ previous_city # Some("Unknown")
             THEN [ ReusePrevious(state) EXCEPT
                        !.city_name = Some(Title(Get(previous_city))) ]
             ELSE [ ClearDerived(state) EXCEPT
                        !.city_name = Some(Title("Unknown")) ]
        ELSE [ ClearDerived(state) EXCEPT !.city_name = Some(Title(destination)) ]

(***************************************************************************)
(* Stage 2, node_check_vector_store.  q_ok, f_ok: whether the two store    *)
(* queries return; both helpers swallow their own exceptions.              *)
(***************************************************************************)
\* Faulty variant of SetFlags: only vector_store_match is assigned.
SetFlagsMatchOnly(state, b) ==
    [ state EXCEPT !.vector_store_match = Some(b) ]

SetFlags(state, b) ==
    [ state EXCEPT !.vector_store_match = Some(b), !.cache_hit = Some(b) ]

\* Faulty variant of QueriesStore: the sentinel is looked up like a city.
QueriesStoreForUnknown(state) == TruthyStr(state.city_name)

QueriesStore(state) ==
    TruthyStr(state.city_name) /\ state.city_name # Some("Unknown")

\* Faulty variant of node_check_vector_store: a state already marked as a
\* hit is returned as it is.
CheckKeepsCarriedHit(state, q_ok, f_ok) ==
    IF ~QueriesStore(state)
    THEN SetFlags(state, FALSE)
    ELSE IF TruthyBool(state.vector_store_match)
         THEN state
         ELSE LET city_normalized == Strip(Get(state.city_name))
              IN  IF query_vector_store(city_normalized, Threshold, q_ok)
                  THEN [ SetFlags(state, TRUE) EXCEPT
                             !.city_summary = Some(get_city_fact(city_normalized, f_ok)) ]
                  ELSE SetFlags(state, FALSE)

\* Faulty variant of node_check_vector_store: a state already marked as a
\* hit is not looked up again and loses its mark.
CheckMarkedOnce(state, q_ok, f_ok) ==
    IF ~QueriesStore(state) \/ TruthyBool(state.cache_hit)
    THEN SetFlags(state, FALSE)
    ELSE LET city_normalized == Strip(Get(state.city_name))
         IN  IF query_vector_store(city_normalized, Threshold, q_ok)
             THEN [ SetFlags(state, TRUE) EXCEPT
                        !.city_summary = Some(get_city_fact(city_normalized, f_ok)) ]
             ELSE SetFlags(state, FALSE)

node_check_vector_store(state, q_ok, f_ok) ==
    IF ~QueriesStore(state)
    THEN SetFlags(state, FALSE)
    ELSE LET city_normalized == Strip(Get(state.city_name))
         IN  IF query_vector_store(city_normalized, Threshold, q_ok)
             THEN [ SetFlags(state, TRUE) EXCEPT
                        !.city_summary = Some(get_city_fact(city_normalized, f_ok)) ]
             ELSE SetFlags(state, FALSE)

(***************************************************************************)
(* The graph, build_travel_graph.                                          *)
(***************************************************************************)
\* Faulty variant of route_based_on_cache: routes on the presence of a
\* summary instead of the flag set by the cache check.
RouteOnSummary(state) ==
    IF TruthyStr(state.city_summary) THEN "cache_hit" ELSE "cache_miss"

route_based_on_cache(state) ==
    IF TruthyBool(state.vector_store_match) THEN "cache_hit" ELSE "cache_miss"

ConditionalEdge(label) ==
    CASE label = "cache_hit" -> "use_cached_context"
      [] label = "cache_miss" -> "call_llm"

\* Faulty variant of Successor: the edge call_llm -> execute_tools is wired
\* from execute_tools to call_llm instead.
SuccessorMiswired(node, state) ==
    CASE node = "START" -> "classify_query"
      [] node = "classify_query" -> "check_vector_store"
      [] node = "check_vector_store" ->
           IF route_based_on_cache(state) = "cache_hit"
           THEN "use_cached_context" ELSE "execute_tools"
      [] node = "use_cached_context" -> "format_output"
      [] node = "execute_tools" -> "call_llm"
      [] node = "call_llm" -> "format_output"
      [] node = "format_output" -> "END"

\* add_edge / add_conditional_edges: the node that follows `node`.
Successor(node, state) ==
    CASE node = "START" -> "classify_query"
      [] node = "classify_query" -> "check_vector_store"
      [] node = "check_vector_store" -> ConditionalEdge(route_based_on_cache(state))
      [] node = "use_cached_context" -> "format_output"
      [] node = "call_llm" -> "execute_tools"
      [] node = "execute_tools" -> "format_output"
      [] node = "format_output" -> "END"

(***************************************************************************)
(* Stage 3, node_use_cached_context.                                       *)
(***************************************************************************)
CachedTasks(state) ==
    << ToolCall(0, "get_weather", Get(state.city_name)),
       ToolCall(0, "get_images", Get(state.city_name)) >>

ListOrEmpty(result) == IF result.type = "list" THEN result.val ELSE <<>>

\* Faulty variant of CachedCollect: the cache path builds the final record
\* itself.
CachedCollectFormats(state, results) ==
    [ state EXCEPT
        !.weather_data = Some(ListOrEmpty(results[1])),
        !.image_urls = Some(ListOrEmpty(results[2])),
        !.final_output = Some(StructuredOutput(Get(state.city_summary),
                                               ListOrEmpty(results[1]),
                                               ListOrEmpty(results[2]))) ]

\* Faulty variant of CachedCollect: one failed fetch empties both fields.
CachedCollectAllOrNothing(state, results) ==
    LET both == results[1].type = "list" /\ results[2].type = "list"
    IN  [ state EXCEPT
            !.weather_data = Some(IF both THEN results[1].val ELSE <<>>),
            !.image_urls = Some(IF both THEN results[2].val ELSE <<>>) ]

\* Faulty variant of CachedCollect: only the forecast is stored.
CachedCollectWeatherOnly(state, results) ==
    [ state EXCEPT !.weather_data = Some(ListOrEmpty(results[1])) ]

CachedCollect(state, results) ==
    [ state EXCEPT !.weather_data = Some(ListOrEmpty(results[1])),
                   !.image_urls = Some(ListOrEmpty(results[2])) ]

(***************************************************************************)
(* Stage 4, node_call_llm_with_tools.                                      *)
(***************************************************************************)
CallId(i) == 10 * i

Requests ==
    { <<"get_weather", "Paris">>, <<"get_weather", "Atlantis">>,
      <<"get_images", "Paris">>, <<"web_search", "Paris">>, <<"get_hotels", "Paris">> }

\* The assistant messages the model may answer with: 0..MaxCalls requests.
ToolCallBatches ==
    UNION { [ 1..n -> Requests ] : n \in 0..MaxCalls }

Response(batch) ==
    AIMessage([ i \in 1..Len(batch) |-> ToolCall(CallId(i), batch[i][1], batch[i][2]) ])

\* Faulty variant of CallLLMReturns: the response replaces the history.
CallLLMReplaces(state, response) ==
    [ state EXCEPT !.messages = << response >> ]

CallLLMReturns(state, response) ==
    [ state EXCEPT !.messages = Append(@, response) ]

\* Faulty variant of CallLLMRaises: the exception is swallowed.
CallLLMRaisesSilently(state, e) == state

CallLLMRaises(state, e) ==
    [ state EXCEPT !.error_message = Some(e) ]

(***************************************************************************)
(* Stage 5, node_execute_tools_parallel.                                   *)
(***************************************************************************)
Last(q) == q[Len(q)]

\* Faulty variant of HasToolCalls: the guard lets every message through.
HasToolCallsAlways(m) == TRUE

\* hasattr(last_message, 'tool_calls') and last_message.tool_calls
HasToolCalls(m) == m.role = "ai" /\ m.tool_calls # <<>>

\* item.dict() if hasattr(item, 'dict') else item: the dict of a
\* WeatherDataPoint is its four entries in insertion order.
ItemDict(elem, item) ==
    IF elem = "model"
    THEN << <<"date", item.date>>, <<"temperature", item.temperature>>,
            <<"condition", item.condition>>, <<"humidity", item.humidity>> >>
    ELSE item

\* json.dumps of one element of a list result: an object of the dict's
\* entries (str values as strings, float values as numbers) or a string.
JsonItem(elem, d) ==
    IF elem = "model"
    THEN JsonObject([ k \in 1..Len(d) |->
                        <<d[k][1], IF d[k][1] \in { "temperature", "humidity" }
                                   THEN JsonNumber(d[k][2]) ELSE JsonString(d[k][2])>> ])
    ELSE JsonString(d)

\* Faulty variant of ToolContent: the error payload does not name the tool.
ToolContentWithoutTool(tool_call, result) ==
    IF result.type = "exception"
    THEN JsonObject([ error |-> result.val, tool |-> "" ])
    ELSE IF result.type = "list"
         THEN JsonArray([ i \in 1..Len(result.val) |->
                            JsonItem(result.elem, ItemDict(result.elem, result.val[i])) ])
         ELSE JsonString(result.val)

ToolContent(tool_call, result) ==
    IF result.type = "exception"
    THEN JsonObject([ error |-> result.val, tool |-> tool_call.name ])
    ELSE IF result.type = "list"
         THEN JsonArray([ i \in 1..Len(result.val) |->
                            JsonItem(result.elem, ItemDict(result.elem, result.val[i])) ])
         ELSE JsonString(result.val)

\* Faulty variant of ToolMessages: the loop stops at the first exception, as
\* a gather that does not return exceptions would.
ToolMessagesUntilFailure(tool_calls, results) ==
    LET failed == { i \in 1..Len(tool_calls) : results[i].type = "exception" }
        n == IF failed = {} THEN Len(tool_calls)
             ELSE (CHOOSE i \in failed : \A j \in failed : i <= j) - 1
    IN  [ i \in 1..n |->
            ToolMessage(tool_calls[i].id, tool_calls[i].name,
                        ToolContent(tool_calls[i], results[i])) ]

\* Faulty variant of ToolMessages: the entries are built from the newest
\* request back to the oldest.
ToolMessagesReversed(tool_calls, results) ==
    LET n == Len(tool_calls)
    IN  [ i \in 1..n |->
            ToolMessage(tool_calls[n + 1 - i].id, tool_calls[n + 1 - i].name,
                        ToolContent(tool_calls[n + 1 - i], results[n + 1 - i])) ]

\* The loop of nodes.py 308-339 over zip(tool_calls_ordered, results).
ToolMessages(tool_calls, results) ==
    [ i \in 1..Len(tool_calls) |->
        ToolMessage(tool_calls[i].id, tool_calls[i].name,
                    ToolContent(tool_calls[i], results[i])) ]

Max(S) == CHOOSE x \in S : \A y \in S : y <= x

\* Faulty variant of Found: the first success of the kind stands.
FoundFirst(tool_calls, results, nm) ==
    LET hits == { i \in 1..Len(tool_calls) :
                    tool_calls[i].name = nm /\ results[i].type # "exception" }
    IN  IF hits = {} THEN <<>>
        ELSE results[CHOOSE i \in hits : \A j \in hits : i <= j].val

\* weather_data_found / image_urls_found: assigned on each success of the
\* kind while the loop runs, so the last success stands.
Found(tool_calls, results, nm) ==
    LET hits == { i \in 1..Len(tool_calls) :
                    tool_calls[i].name = nm /\ results[i].type # "exception" }
    IN  IF hits = {} THEN <<>> ELSE results[Max(hits)].val

ExecCollect(state, tool_calls, results) ==
    LET weather_data_found == Found(tool_calls, results, "get_weather")
        image_urls_found == Found(tool_calls, results, "get_images")
    IN  [ state EXCEPT
            !.messages = @ \o ToolMessages(tool_calls, results),
            !.weather_data = IF weather_data_found # <<>>
                             THEN Some(weather_data_found) ELSE @,
            !.image_urls = IF image_urls_found # <<>>
                           THEN Some(image_urls_found) ELSE @ ]

(***************************************************************************)
(* Stage 6, node_format_output.                                            *)
(***************************************************************************)
OrEmpty(o) == IF TruthySeq(o) THEN Get(o) ELSE <<>>

\* Faulty variant of NeedsSynthesis: a summary is always synthesized.
NeedsSynthesisAlways(state) == TRUE

NeedsSynthesis(state) == ~TruthyStr(state.city_summary)

\* Faulty variant of FormatWith: the record is built but not stored.
FormatWithoutStoring(state, city_summary) ==
    [ state EXCEPT !.city_summary = Some(city_summary) ]

\* Faulty variant of FormatWith: the summary just produced is marked as
\* cached.
FormatWithMarksCached(state, city_summary) ==
    [ state EXCEPT
        !.city_summary = Some(city_summary),
        !.cache_hit = Some(TRUE),
        !.final_output = Some(StructuredOutput(city_summary,
                                               OrEmpty(state.weather_data),
                                               OrEmpty(state.image_urls))) ]

FormatWith(state, city_summary) ==
    [ state EXCEPT
        !.city_summary = Some(city_summary),
        !.final_output = Some(StructuredOutput(city_summary,
                                               OrEmpty(state.weather_data),
                                               OrEmpty(state.image_urls))) ]

FormatRaises(state, e) ==
    [ state EXCEPT !.error_message = Some(e) ]

(***************************************************************************)
(* The state machine.                                                      *)
(***************************************************************************)
Stages == { "classify_query", "check_vector_store", "use_cached_context",
            "call_llm", "execute_tools", "format_output" }

InFlight(s) == pc[s] \in Stages

Init ==
    /\ clock = 1
    /\ tid = [ s \in Sessions |-> None ]
    /\ ui = [ s \in Sessions |-> 0 ]
    /\ pc = [ s \in Sessions |-> "new" ]
    /\ st = [ s \in Sessions |-> AgentState(<<>>) ]
    /\ ckpt = [ t \in ThreadIds |-> None ]
    /\ fan = [ s \in Sessions |-> None ]
    /\ ran = [ s \in Sessions |-> <<>> ]
    /\ ev = [ s \in Sessions |-> {} ]
    /\ turns = [ s \in Sessions |-> 0 ]

\* The wall clock advances (it is read only when a session is created).
Tick(S) ==
    /\ clock < MaxClock
    /\ \E s \in S : pc[s] = "new"
    /\ clock' = clock + 1
    /\ UNCHANGED <<tid, ui, pc, st, ckpt, fan, ran, ev, turns>>

\* initialize_session_state: thread_id = "user_<seconds>".
InitSession(s) ==
    /\ pc[s] = "new"
    /\ tid' = [ tid EXCEPT ![s] = Some(clock) ]
    /\ pc' = [ pc EXCEPT ![s] = "idle" ]
    /\ UNCHANGED <<clock, ui, st, ckpt, fan, ran, ev, turns>>

\* Faulty variant of Restore: the saver is not keyed, a run starts from
\* whatever checkpoint there is.
RestoreUnkeyed(thread) ==
    IF \A t \in ThreadIds : ckpt[t] = None
    THEN AgentState(<<>>)
    ELSE Get(ckpt[CHOOSE t \in ThreadIds : ckpt[t] # None])

\* MemorySaver: the state a run on `thread` starts from.
Restore(thread) == IF ckpt[thread] = None THEN AgentState(<<>>) ELSE Get(ckpt[thread])

\* A node has returned: its state is the run's state and is checkpointed.
Commit(s, node, state) ==
    /\ st' = [ st EXCEPT ![s] = state ]
    /\ ckpt' = [ ckpt EXCEPT ![Get(tid[s])] = Some(state) ]
    /\ pc' = [ pc EXCEPT ![s] = Successor(node, state) ]
    /\ ran' = [ ran EXCEPT ![s] = Append(@, node) ]

Observe(s, labels) == ev' = [ ev EXCEPT ![s] = @ \cup labels ]

\* main(): a query is entered and graph.ainvoke runs with the user
\* messages as input on the session's thread.
StartTurn(s) ==
    /\ pc[s] \in { "idle", "END", "failed" }
    /\ LET state == [ Restore(Get(tid[s])) EXCEPT !.messages = HumanMessages(ui[s] + 1) ]
       IN  /\ st' = [ st EXCEPT ![s] = state ]
           /\ ckpt' = [ ckpt EXCEPT ![Get(tid[s])] = Some(state) ]
    /\ ui' = [ ui EXCEPT ![s] = @ + 1 ]
    /\ turns' = [ turns EXCEPT ![s] = @ + 1 ]
    /\ pc' = [ pc EXCEPT ![s] = Successor("START", st[s]) ]
    /\ ran' = [ ran EXCEPT ![s] = <<>> ]
    /\ ev' = [ ev EXCEPT ![s] = {} ]
    /\ fan' = [ fan EXCEPT ![s] = None ]
    /\ UNCHANGED <<clock, tid>>

ClassifyQuery(s, replies) ==
    /\ pc[s] = "classify_query"
    /\ \E raw \in replies :
          /\ Commit(s, "classify_query", node_classify_query(st[s], raw))
          /\ Observe(s, { <<"llm", "extract">>,
                          <<"reply", IF Lower(Strip(raw)) \in Sentinels
                                     THEN "none" ELSE "entity">> })
    /\ UNCHANGED <<clock, tid, ui, fan, turns>>

\* nodes.py 52: the extraction call is awaited outside any try block, so
\* its exception leaves the node and ends graph.ainvoke.
ClassifyQueryRaises(s) ==
    /\ pc[s] = "classify_query"
    /\ pc' = [ pc EXCEPT ![s] = "failed" ]
    /\ Observe(s, { <<"llm", "extract">>, <<"raised", "extract">> })
    /\ UNCHANGED <<clock, tid, ui, st, ckpt, fan, ran, turns>>

StoreLabels(state, q_ok, f_ok) ==
    IF ~QueriesStore(state) THEN {}
    ELSE { <<"store", "query">> }
         \cup (IF q_ok THEN {} ELSE { <<"raised", "query">> })
         \cup (IF query_vector_store(Strip(Get(state.city_name)), Threshold, q_ok)
               THEN { <<"store", "fact">> }
                    \cup (IF f_ok THEN {} ELSE { <<"raised", "fact">> })
               ELSE {})

CheckVectorStore(s, io) ==
    /\ pc[s] = "check_vector_store"
    /\ \E q_ok \in io, f_ok \in io :
          /\ Commit(s, "check_vector_store", node_check_vector_store(st[s], q_ok, f_ok))
          /\ Observe(s, StoreLabels(st[s], q_ok, f_ok))
    /\ UNCHANGED <<clock, tid, ui, fan, turns>>

\* asyncio.gather(*tasks, return_exceptions=True): the batch is started.
Launch(s, calls) ==
    /\ fan' = [ fan EXCEPT ![s] = Some([ calls |-> calls,
                                        results |-> [ i \in 1..Len(calls) |-> Pending ] ]) ]
    /\ UNCHANGED <<clock, tid, ui, pc, st, ckpt, ran, ev, turns>>

\* Faulty variant of AllReturned: the wait for the batch never ends.
NeverReturned(s) == FALSE

\* Faulty variant of AllReturned: the first completed execution ends the
\* wait.
AnyReturned(s) ==
    /\ fan[s] # None
    /\ \E i \in 1..Len(Get(fan[s]).calls) : Get(fan[s]).results[i] # Pending

AllReturned(s) ==
    /\ fan[s] # None
    /\ \A i \in 1..Len(Get(fan[s]).calls) : Get(fan[s]).results[i] # Pending

\* One awaited execution of the batch returns or raises, in any order.
TaskReturns(s, i, ok) ==
    /\ fan[s] # None
    /\ i \in 1..Len(Get(fan[s]).calls)
    /\ Get(fan[s]).results[i] = Pending
    /\ LET call == Get(fan[s]).calls[i]
           result == execute_tool(call.name, call.args, ok)
       IN  /\ fan' = [ fan EXCEPT ![s] = Some([ Get(@) EXCEPT !.results[i] = result ]) ]
           /\ Observe(s, { <<"tool", call.name>> }
                         \cup (IF result.type = "exception"
                               THEN { <<"raised", call.name>> } ELSE {}))
    /\ UNCHANGED <<clock, tid, ui, pc, st, ckpt, ran, turns>>

\* nodes.py 156-158: nothing to do without a summary.
UseCachedContextSkip(s) ==
    /\ pc[s] = "use_cached_context"
    /\ ~TruthyStr(st[s].city_summary)
    /\ Commit(s, "use_cached_context", st[s])
    /\ UNCHANGED <<clock, tid, ui, fan, ev, turns>>

UseCachedContextLaunch(s) ==
    /\ pc[s] = "use_cached_context"
    /\ TruthyStr(st[s].city_summary)
    /\ fan[s] = None
    /\ Launch(s, CachedTasks(st[s]))

UseCachedContextCollect(s) ==
    /\ pc[s] = "use_cached_context"
    /\ AllReturned(s)
    /\ Commit(s, "use_cached_context", CachedCollect(st[s], Get(fan[s]).results))
    /\ UNCHANGED <<clock, tid, ui, fan, ev, turns>>

CallLLM(s, batches) ==
    /\ pc[s] = "call_llm"
    /\ \E batch \in batches :
          Commit(s, "call_llm", CallLLMReturns(st[s], Response(batch)))
    /\ Observe(s, { <<"llm", "decide">> })
    /\ UNCHANGED <<clock, tid, ui, fan, turns>>

CallLLMFails(s) ==
    /\ pc[s] = "call_llm"
    /\ Commit(s, "call_llm", CallLLMRaises(st[s], "decide failed"))
    /\ Observe(s, { <<"llm", "decide">>, <<"raised", "decide">> })
    /\ UNCHANGED <<clock, tid, ui, fan, turns>>

\* nodes.py 264-266: no tool calls in the latest message.
ExecuteToolsSkip(s) ==
    /\ pc[s] = "execute_tools"
    /\ ~HasToolCalls(Last(st[s].messages))
    /\ Commit(s, "execute_tools", st[s])
    /\ UNCHANGED <<clock, tid, ui, fan, ev, turns>>

ExecuteToolsLaunch(s) ==
    /\ pc[s] = "execute_tools"
    /\ HasToolCalls(Last(st[s].messages))
    /\ fan[s] = None
    /\ Launch(s, Last(st[s].messages).tool_calls)

ExecuteToolsCollect(s) ==
    /\ pc[s] = "execute_tools"
    /\ AllReturned(s)
    /\ Commit(s, "execute_tools",
              ExecCollect(st[s], Get(fan[s]).calls, Get(fan[s]).results))
    /\ UNCHANGED <<clock, tid, ui, fan, ev, turns>>

\* The summary is taken from the state when there is one.
FormatOutputCached(s) ==
    /\ pc[s] = "format_output"
    /\ ~NeedsSynthesis(st[s])
    /\ Commit(s, "format_output", FormatWith(st[s], Get(st[s].city_summary)))
    /\ UNCHANGED <<clock, tid, ui, fan, ev, turns>>

SynthesisTexts == { "llm:summary" }

FormatOutputSynthesis(s) ==
    /\ pc[s] = "format_output"
    /\ NeedsSynthesis(st[s])
    /\ \E text \in SynthesisTexts :
          Commit(s, "format_output", FormatWith(st[s], text))
    /\ Observe(s, { <<"llm", "synth">> })
    /\ UNCHANGED <<clock, tid, ui, fan, turns>>

FormatOutputFails(s) ==
    /\ pc[s] = "format_output"
    /\ NeedsSynthesis(st[s])
    /\ Commit(s, "format_output", FormatRaises(st[s], "synthesis failed"))
    /\ Observe(s, { <<"llm", "synth">>, <<"raised", "synth">> })
    /\ UNCHANGED <<clock, tid, ui, fan, turns>>

\* Every outcome of every stage of the run of session s.
Stage(s) ==
    \/ ClassifyQuery(s, RawExtractions)
    \/ ClassifyQueryRaises(s)
    \/ CheckVectorStore(s, BOOLEAN)
    \/ UseCachedContextSkip(s)
    \/ UseCachedContextLaunch(s)
    \/ UseCachedContextCollect(s)
    \/ CallLLM(s, ToolCallBatches)
    \/ CallLLMFails(s)
    \/ ExecuteToolsSkip(s)
    \/ ExecuteToolsLaunch(s)
    \/ ExecuteToolsCollect(s)
    \/ FormatOutputCached(s)
    \/ FormatOutputSynthesis(s)
    \/ FormatOutputFails(s)
    \/ \E i \in 1..MaxCalls, ok \in BOOLEAN : TaskReturns(s, i, ok)

(***************************************************************************)
(* Spec: one conversation, every reply and every failure of the language   *)
(* model, the store and the tools.                                         *)
(***************************************************************************)
Conversation == 1

Next ==
    \/ Tick({ Conversation })
    \/ InitSession(Conversation)
    \/ turns[Conversation] < MaxTurns /\ StartTurn(Conversation)
    \/ Stage(Conversation)

Spec == Init /\ [][Next]_vars

\* SpecLive: every call of a run that is in flight returns or raises, so a
\* stage that can take a step eventually takes one.
SpecLive == Spec /\ WF_vars(Stage(Conversation))

(***************************************************************************)
(* SpecThreads: the sessions run concurrently, their stages interleaved;   *)
(* the collaborators answer without failing and from fewer replies.        *)
(***************************************************************************)
FewExtractions == { "Paris", "None" }
FewBatches == { <<>>, << <<"get_weather", "Paris">> >> }

Runs == turns[1] + turns[2]

StageOfThread(s) ==
    \/ ClassifyQuery(s, FewExtractions)
    \/ CheckVectorStore(s, { TRUE })
    \/ UseCachedContextLaunch(s)
    \/ UseCachedContextCollect(s)
    \/ CallLLM(s, FewBatches)
    \/ ExecuteToolsSkip(s)
    \/ ExecuteToolsLaunch(s)
    \/ ExecuteToolsCollect(s)
    \/ FormatOutputCached(s)
    \/ FormatOutputSynthesis(s)
    \/ \E i \in 1..MaxCalls : TaskReturns(s, i, TRUE)

NextThreads ==
    \/ Tick(Sessions)
    \/ \E s \in Sessions :
          \/ InitSession(s)
          \/ Runs < MaxRuns /\ StartTurn(s)
          \/ StageOfThread(s)

SpecThreads == Init /\ [][NextThreads]_vars

(***************************************************************************)
(* Properties.                                                             *)
(***************************************************************************)
Range(q) == { q[i] : i \in DOMAIN q }

IsPrefix(a, b) == Len(a) <= Len(b) /\ SubSeq(b, 1, Len(a)) = a

Raised(s) == { l \in ev[s] : l[1] = "raised" }

\* A stage of the path is running or has returned in the current turn.
OnCachePath(s) ==
    pc[s] = "use_cached_context" \/ "use_cached_context" \in Range(ran[s])

OnColdPath(s) ==
    \/ pc[s] \in { "call_llm", "execute_tools" }
    \/ Range(ran[s]) \cap { "call_llm", "execute_tools" } # {}

\* C1: never both paths in a turn; once the cache check has returned one of
\* them runs, the cached one exactly when cache_hit is true in the state the
\* cache check returned; a completed turn ran exactly one of them in full.
C1_ExactlyOnePath ==
    \A s \in Sessions :
        /\ ~(OnCachePath(s) /\ OnColdPath(s))
        /\ Len(ran[s]) >= 2 => (OnCachePath(s) \/ OnColdPath(s))
        /\ Len(ran[s]) = 2 => (OnCachePath(s) <=> st[s].cache_hit = Some(TRUE))
        /\ pc[s] = "END" =>
             ("use_cached_context" \in Range(ran[s]))
                # ({ "call_llm", "execute_tools" } \subseteq Range(ran[s]))

\* A follow-up turn whose cache check misses while a summary of the previous
\* turn is still in the state: the cold path runs.
C1_Witness ==
    /\ pc[Conversation] = "call_llm"
    /\ turns[Conversation] = 2
    /\ st[Conversation].cache_hit = Some(FALSE)
    /\ TruthyStr(st[Conversation].city_summary)

\* C2: no stage raises past its boundary: no run is ended by an exception,
\* and a completed turn in which a call failed has error_message set.
C2_FailuresBecomeLastError ==
    \A s \in Sessions :
        /\ pc[s] # "failed"
        /\ (pc[s] = "END" /\ Raised(s) # {}) => st[s].error_message # None

CachePathOrder ==
    << "classify_query", "check_vector_store", "use_cached_context", "format_output" >>

ColdPathOrder ==
    << "classify_query", "check_vector_store", "call_llm", "execute_tools",
       "format_output" >>

FollowsOrder(q) == IsPrefix(q, CachePathOrder) \/ IsPrefix(q, ColdPathOrder)

\* C9: the stages of a turn return in the order of one of the two paths,
\* the stage that is running is the next one of that order, and a turn that
\* ends has run one of the two orders in full.
C9_StageOrder ==
    \A s \in Sessions :
        /\ FollowsOrder(ran[s])
        /\ InFlight(s) => FollowsOrder(Append(ran[s], pc[s]))
        /\ pc[s] = "END" => ran[s] \in { CachePathOrder, ColdPathOrder }

C9_Witness ==
    /\ pc[Conversation] = "END"
    /\ ran[Conversation] = ColdPathOrder
    /\ Len(st[Conversation].messages) > 2

Count(q, x) == Cardinality({ i \in DOMAIN q : q[i] = x })

\* C10: format_output returns at most once in a turn and exactly once in a
\* turn that ends, on either path; and a step of a run that changes
\* final_output to a value other than None is a step of format_output.
C10_SoleProducer ==
    /\ [](\A s \in Sessions :
            /\ Count(ran[s], "format_output") <= 1
            /\ pc[s] = "END" => Count(ran[s], "format_output") = 1)
    /\ [][\A s \in Sessions :
            ( /\ InFlight(s)
              /\ st'[s].final_output # st[s].final_output
              /\ st'[s].final_output # None )
            => pc[s] = "format_output"]_vars

C10_Witness ==
    /\ pc[Conversation] = "END"
    /\ "use_cached_context" \in Range(ran[Conversation])
    /\ st[Conversation].final_output # None
    /\ st[Conversation].weather_data # Some(<<>>)

\* The fields a follow-up turn keeps: entity, cache flags, cached fact.
SameCacheStatus(a, b) ==
    /\ a.city_name = b.city_name
    /\ a.vector_store_match = b.vector_store_match
    /\ a.cache_hit = b.cache_hit
    /\ a.city_summary = b.city_summary

\* C3: a turn starts from the state the previous turn of the conversation
\* left (entity E, flags, fact); when the extraction reply is none, unknown
\* or empty and E is an entity other than Unknown, the state classification
\* returns has entity E, empty weather_data and image_urls, and the flags
\* and the fact unchanged.
C3_StickyEntity ==
    [][\A s \in Sessions :
         /\ (pc[s] \in { "END", "failed" } /\ pc'[s] = "classify_query")
              => SameCacheStatus(st[s], st'[s])
         /\ ( /\ pc[s] = "classify_query"
              /\ pc'[s] = "check_vector_store"
              /\ <<"reply", "none">> \in ev'[s]
              /\ TruthyStr(st[s].city_name)
              /\ st[s].city_name # Some("Unknown") )
              => /\ SameCacheStatus(st[s], st'[s])
                 /\ st'[s].weather_data = Some(<<>>)
                 /\ st'[s].image_urls = Some(<<>>)]_vars

\* Classification of the second turn has reused Paris, a cache hit.
C3_Witness ==
    /\ pc[Conversation] = "check_vector_store"
    /\ turns[Conversation] = 2
    /\ <<"reply", "none">> \in ev[Conversation]
    /\ st[Conversation].city_name = Some("Paris")
    /\ st[Conversation].cache_hit = Some(TRUE)
    /\ st[Conversation].city_summary = Some("fact:Paris")
    /\ st[Conversation].weather_data = Some(<<>>)

\* json.loads of a JSON value: a number is read from its digits, a string
\* is its text, an object is the sequence of its key/value entries.
json_loads(v) ==
    CASE v[1] = "number" -> 10 * v[2] + v[3]
      [] v[1] = "string" -> v[2]
      [] v[1] = "object" ->
           [ k \in 1..Len(v[2]) |->
               <<v[2][k][1], IF v[2][k][2][1] = "number"
                             THEN 10 * v[2][k][2][2] + v[2][k][2][3]
                             ELSE v[2][k][2][2]>> ]

\* WeatherDataPoint(**d) for a parsed object d.
PointOf(d) ==
    LET value(key) == d[CHOOSE k \in 1..Len(d) : d[k][1] = key][2]
    IN  WeatherDataPoint(value("date"), value("temperature"),
                         value("condition"), value("humidity"))

\* The result a tool message's content stands for, parsed back.
Recovered(content) ==
    IF content[1] = "array"
    THEN [ k \in 1..Len(content[2]) |->
             IF content[2][k][1] = "object"
             THEN PointOf(json_loads(content[2][k]))
             ELSE json_loads(content[2][k]) ]
    ELSE json_loads(content)

\* The batch that execute_tools awaited in the current turn.
Executed(s) == "execute_tools" \in Range(ran[s]) /\ fan[s] # None

\* C4: after execute_tools, for every request of the batch whose execution
\* succeeded, the entry at the request's position among the appended
\* entries is its tool message with the serialized result, whatever
\* happened to the other requests.
C4_FanOutIsolation ==
    \A s \in Sessions :
        Executed(s) =>
            LET calls == Get(fan[s]).calls
                results == Get(fan[s]).results
                msgs == st[s].messages
                base == Len(msgs) - Len(calls)
            IN  /\ base >= 1
                /\ \A i \in 1..Len(calls) :
                      results[i].type # "exception" =>
                          /\ msgs[base + i].role = "tool"
                          /\ msgs[base + i].tool_call_id = calls[i].id
                          /\ msgs[base + i].name = calls[i].name
                          /\ msgs[base + i].content[1] =
                                (IF results[i].type = "list" THEN "array" ELSE "string")
                          /\ Recovered(msgs[base + i].content) = results[i].val

\* Two requests, the first failed, the second succeeded.
C4_Witness ==
    /\ pc[Conversation] = "format_output"
    /\ Executed(Conversation)
    /\ Len(Get(fan[Conversation]).calls) = 2
    /\ Get(fan[Conversation]).results[1].type = "exception"
    /\ Get(fan[Conversation]).results[2].type = "list"

\* C5: after execute_tools, an assistant message with n >= 1 requests is
\* followed by exactly n tool messages, the last n messages, the i-th with
\* the id and the name of the i-th request.
C5_ResultsInRequestOrder ==
    \A s \in Sessions :
        "execute_tools" \in Range(ran[s]) =>
            LET msgs == st[s].messages
            IN  \A p \in 1..Len(msgs) :
                    (msgs[p].role = "ai" /\ Len(msgs[p].tool_calls) >= 1) =>
                        LET n == Len(msgs[p].tool_calls)
                        IN  /\ Len(msgs) = p + n
                            /\ \A i \in 1..n :
                                  /\ msgs[p + i].role = "tool"
                                  /\ msgs[p + i].tool_call_id = msgs[p].tool_calls[i].id
                                  /\ msgs[p + i].name = msgs[p].tool_calls[i].name

\* Two requests for different tools have been answered.
C5_Witness ==
    /\ pc[Conversation] = "format_output"
    /\ Executed(Conversation)
    /\ LET msgs == st[Conversation].messages
       IN  /\ Len(msgs) >= 3
           /\ msgs[Len(msgs)].role = "tool"
           /\ msgs[Len(msgs) - 1].role = "tool"
           /\ msgs[Len(msgs)].name # msgs[Len(msgs) - 1].name

\* C6: no two runs on the same thread id are in flight together.
C6_SingleFlightPerId ==
    \A s, r \in Sessions :
        (s # r /\ tid[s] # None /\ tid[s] = tid[r]) => ~(InFlight(s) /\ InFlight(r))

NoCacheStatus(state) ==
    /\ state.city_name = None
    /\ state.vector_store_match = None
    /\ state.cache_hit = None
    /\ state.city_summary = None

\* No run was started on the thread of s before the current one.
FirstRunOnThread(s) ==
    /\ tid[s] # None
    /\ turns[s] = 1
    /\ \A r \in Sessions \ { s } : tid[r] = tid[s] => turns[r] = 0

Moves(s) == pc'[s] # pc[s] \/ st'[s] # st[s] \/ fan'[s] # fan[s]

\* C7: the first run on a thread id starts without entity, flags and fact;
\* a step of a session changes no checkpoint but that of its own thread id
\* and no other session's run, and a run starts from the checkpoint of its
\* own thread id.
C7_ThreadIsolation ==
    /\ [](\A s \in Sessions :
            (pc[s] = "classify_query" /\ FirstRunOnThread(s)) => NoCacheStatus(st[s]))
    /\ [][\A s \in Sessions :
            Moves(s) =>
                /\ \A t \in ThreadIds : tid'[s] # Some(t) => ckpt'[t] = ckpt[t]
                /\ \A r \in Sessions \ { s } : st'[r] = st[r] /\ pc'[r] = pc[r]
                /\ (~InFlight(s) /\ pc'[s] = "classify_query") =>
                      IF ckpt[Get(tid[s])] = None
                      THEN NoCacheStatus(st'[s])
                      ELSE SameCacheStatus(st'[s], Get(ckpt[Get(tid[s])]))]_vars

\* Session 2 starts its first run on an unused thread id while session 1,
\* on another thread id, is in flight with Paris and its cached fact.
C7_Witness ==
    /\ pc[2] = "classify_query"
    /\ FirstRunOnThread(2)
    /\ tid[1] # tid[2]
    /\ InFlight(1)
    /\ st[1].city_name = Some("Paris")
    /\ st[1].city_summary = Some("fact:Paris")

\* C8: original statement.  A completed turn has a final_output unless a
\* call failed in a stage before format_output.
C8_FinalResultAtCompletion ==
    \A s \in Sessions :
        (pc[s] = "END" /\ Raised(s) \subseteq { <<"raised", "synth">> })
            => st[s].final_output # None

\* C8, amended: a completed turn has a final_output unless the synthesis
\* call of format_output failed in that turn, and then error_message holds
\* that failure.
C8_FinalOutputUnlessSynthesisFails ==
    \A s \in Sessions :
        (pc[s] = "END" /\ st[s].final_output = None)
            => /\ <<"raised", "synth">> \in ev[s]
               /\ st[s].error_message = Some("synthesis failed")

\* A turn whose tool decision failed still ends with a final_output.
C8_Witness ==
    /\ pc[Conversation] = "END"
    /\ <<"raised", "decide">> \in ev[Conversation]
    /\ st[Conversation].final_output # None
    /\ st[Conversation].error_message = Some("decide failed")

\* The stage has awaited a batch and has returned in the current turn.
Gathered(s, node) == node \in Range(ran[s]) /\ fan[s] # None

SomeFailed(s) ==
    \E i \in 1..Len(Get(fan[s]).calls) : Get(fan[s]).results[i].type = "exception"

\* C11: when use_cached_context or execute_tools has returned and an
\* execution of its batch raised, error_message is set.
C11_ToolFailureRecorded ==
    \A s \in Sessions :
        ( /\ Gathered(s, "use_cached_context") \/ Gathered(s, "execute_tools")
          /\ SomeFailed(s) )
            => st[s].error_message # None

StoreRaised(s) == ev[s] \cap { <<"raised", "query">>, <<"raised", "fact">> } # {}

\* C12: when a store query raised during check_vector_store, the state the
\* stage returns has error_message set and both flags false, and call_llm is
\* the next stage.
C12_StoreErrorFailsOpen ==
    \A s \in Sessions :
        (Len(ran[s]) = 2 /\ StoreRaised(s))
            => /\ st[s].error_message # None
               /\ st[s].vector_store_match = Some(FALSE)
               /\ st[s].cache_hit = Some(FALSE)
               /\ pc[s] = "call_llm"

\* C13: in a turn on the cache path neither the tool decision nor the
\* summary synthesis is asked of the language model.
C13_NoModelCallOnCachePath ==
    \A s \in Sessions :
        OnCachePath(s) => ev[s] \cap { <<"llm", "decide">>, <<"llm", "synth">> } = {}

\* C14: once check_vector_store has returned with vector_store_match true,
\* city_summary is a non-empty string.
C14_MatchImpliesFact ==
    \A s \in Sessions :
        (Len(ran[s]) >= 2 /\ TruthyBool(st[s].vector_store_match))
            => TruthyStr(st[s].city_summary)

\* What check_vector_store can write into city_summary.
StoredFacts == { get_city_fact(city, io_ok) : city \in { "Paris", "Lyon", "Atlantis" },
                                               io_ok \in BOOLEAN }

\* C15: a city_summary other than None is a text check_vector_store took
\* from the store.
C15_FactOnlyFromStore ==
    \A s \in Sessions :
        st[s].city_summary # None => Get(st[s].city_summary) \in StoredFacts

\* C16: a completed turn on the cold path has asked the language model for
\* the tool decision, and the summary of its final_output is a text the
\* language model synthesized.
C16_ColdSummaryIsGenerated ==
    \A s \in Sessions :
        (pc[s] = "END" /\ OnColdPath(s))
            => /\ <<"llm", "decide">> \in ev[s]
               /\ st[s].final_output # None
                    => Get(st[s].final_output).city_summary \in SynthesisTexts

\* The current turn's classification has returned and took the follow-up
\* branch: the reply named no entity and the previous entity was kept.
ReusedEntity(s) ==
    /\ Len(ran[s]) >= 1
    /\ <<"reply", "none">> \in ev[s]
    /\ st[s].city_name # Some("Unknown")

C18_FailureEncodedAsError ==
    \A s \in Sessions :
        /\ pc[s] = "failed" => ran[s] = <<>>
        /\ Gathered(s, "execute_tools") =>
             LET calls == Get(fan[s]).calls
                 results == Get(fan[s]).results
                 msgs == st[s].messages
                 base == Len(msgs) - Len(calls)
             IN  \A i \in 1..Len(calls) :
                     results[i].type = "exception" =>
                         /\ msgs[base + i].role = "tool"
                         /\ msgs[base + i].tool_call_id = calls[i].id
                         /\ msgs[base + i].name = calls[i].name
                         /\ msgs[base + i].content[1] = "object"
                         /\ msgs[base + i].content[2].error = results[i].val
                         /\ msgs[base + i].content[2].tool = calls[i].name

\* get_weather timed out and the sibling get_images call succeeded.
C18_Witness ==
    /\ pc[Conversation] = "format_output"
    /\ Gathered(Conversation, "execute_tools")
    /\ LET calls == Get(fan[Conversation]).calls
           results == Get(fan[Conversation]).results
       IN  /\ Len(calls) = 2
           /\ calls[1].name = "get_weather"
           /\ results[1] = Exc(<<"timeout", "get_weather">>)
           /\ calls[2].name = "get_images"
           /\ results[2].type = "list"
           /\ st[Conversation].image_urls = Some(fetch_city_images("Paris"))

\* C19: after use_cached_context has awaited its two fetches, weather_data
\* is the forecast if the weather fetch returned and empty if it raised,
\* image_urls is the gallery if the image fetch returned and empty if it
\* raised, each whatever the other did; the run is not ended.
C19_CachedFetchesIndependent ==
    \A s \in Sessions :
        Gathered(s, "use_cached_context") =>
            LET city == Get(st[s].city_name)
                results == Get(fan[s]).results
            IN  /\ pc[s] \in { "format_output", "END" }
                /\ st[s].weather_data =
                      Some(IF results[1].type = "exception"
                           THEN <<>> ELSE fetch_weather_forecast(city))
                /\ st[s].image_urls =
                      Some(IF results[2].type = "exception"
                           THEN <<>> ELSE fetch_city_images(city))

\* The weather fetch raised; the gallery is stored.
C19_Witness ==
    /\ pc[Conversation] = "format_output"
    /\ Gathered(Conversation, "use_cached_context")
    /\ Get(fan[Conversation]).results[1].type = "exception"
    /\ Get(fan[Conversation]).results[2].type = "list"
    /\ st[Conversation].weather_data = Some(<<>>)
    /\ st[Conversation].image_urls = Some(fetch_city_images("Paris"))

\* C20: for an entity other than Unknown, the state check_vector_store
\* returns has both flags true exactly when the store query returned and
\* the nearest distance is below Threshold, equal being a miss; on a hit
\* city_summary is the text of the nearest document when its retrieval
\* returned; otherwise both flags are false.
C20_HitBelowCutoff ==
    \A s \in Sessions :
        (Len(ran[s]) = 2 /\ QueriesStore(st[s])) =>
            LET city == Strip(Get(st[s].city_name))
                hit == /\ <<"raised", "query">> \notin ev[s]
                       /\ NearestDistance(city) < Threshold
            IN  IF hit
                THEN /\ st[s].vector_store_match = Some(TRUE)
                     /\ st[s].cache_hit = Some(TRUE)
                     /\ <<"raised", "fact">> \notin ev[s]
                          => st[s].city_summary = Some(NearestDocument(city))
                ELSE /\ st[s].vector_store_match = Some(FALSE)
                     /\ st[s].cache_hit = Some(FALSE)

\* The query returned a nearest match at exactly the cutoff: a miss.
C20_Witness ==
    /\ Len(ran[Conversation]) = 2
    /\ st[Conversation].city_name = Some("Lyon")
    /\ NearestDistance("Lyon") = Threshold
    /\ <<"raised", "query">> \notin ev[Conversation]
    /\ st[Conversation].cache_hit = Some(FALSE)
    /\ pc[Conversation] = "call_llm"

WeatherKeys == << "date", "temperature", "condition", "humidity" >>

\* C26: the content execute_tools writes for a forecast or gallery result,
\* parsed back, has for each forecast point the entries date, temperature,
\* condition, humidity in this order with the point's values, and for the
\* gallery the list of URLs.
C26_RoundTrip ==
    \A s \in Sessions :
        Gathered(s, "execute_tools") =>
            LET calls == Get(fan[s]).calls
                results == Get(fan[s]).results
                msgs == st[s].messages
                base == Len(msgs) - Len(calls)
            IN  \A i \in 1..Len(calls) :
                    results[i].type = "list" =>
                        LET items == msgs[base + i].content[2]
                            val == results[i].val
                        IN  /\ msgs[base + i].content[1] = "array"
                            /\ Len(items) = Len(val)
                            /\ \A k \in 1..Len(val) :
                                  IF results[i].elem = "model"
                                  THEN LET d == json_loads(items[k])
                                       IN  /\ [ j \in 1..Len(d) |-> d[j][1] ] = WeatherKeys
                                           /\ d[1][2] = val[k].date
                                           /\ d[2][2] = val[k].temperature
                                           /\ d[3][2] = val[k].condition
                                           /\ d[4][2] = val[k].humidity
                                  ELSE json_loads(items[k]) = val[k]

\* The forecast of Paris (8.5 degrees on the first day) and a gallery have
\* been serialized in one batch.
C26_Witness ==
    /\ pc[Conversation] = "format_output"
    /\ Gathered(Conversation, "execute_tools")
    /\ LET calls == Get(fan[Conversation]).calls
           results == Get(fan[Conversation]).results
       IN  /\ Len(calls) = 2
           /\ calls[1].name = "get_weather"
           /\ results[1].type = "list"
           /\ results[1].val[1].temperature = 85
           /\ calls[2].name = "get_images"
           /\ results[2].type = "list"

\* C21: for every state the cache check is run on and every answer of the
\* store, running node_check_vector_store on its own result with the same
\* answer returns that result again: same decision, flags and city_summary.
C21_CheckIdempotent ==
    \A s \in Sessions :
        pc[s] = "check_vector_store" =>
            \A q_ok \in BOOLEAN, f_ok \in BOOLEAN :
                LET once == node_check_vector_store(st[s], q_ok, f_ok)
                    twice == node_check_vector_store(once, q_ok, f_ok)
                IN  /\ SameCacheStatus(once, twice)
                    /\ route_based_on_cache(once) = route_based_on_cache(twice)
                    /\ twice = once

\* The cache check is about to run again on Paris, which the previous turn
\* found in the store.
C21_Witness ==
    /\ pc[Conversation] = "check_vector_store"
    /\ turns[Conversation] = 2
    /\ ReusedEntity(Conversation)
    /\ st[Conversation].city_name = Some("Paris")
    /\ st[Conversation].cache_hit = Some(TRUE)

StoreQueried(s) == ev[s] \cap { <<"store", "query">>, <<"store", "fact">> } # {}

\* C22: when the entity is Unknown or empty, the state check_vector_store
\* returns has both flags false, no store query was made in the turn, and
\* the turn is on the cold path.
C22_UnknownSkipsStore ==
    \A s \in Sessions :
        (Len(ran[s]) >= 2 /\ st[s].city_name \in { None, Some(""), Some("Unknown") }) =>
            /\ st[s].vector_store_match = Some(FALSE)
            /\ st[s].cache_hit = Some(FALSE)
            /\ ~StoreQueried(s)
            /\ ~OnCachePath(s)
            /\ OnColdPath(s) \/ pc[s] = "format_output" \/ pc[s] = "END"

\* The second turn named no entity after a first turn that named none.
C22_Witness ==
    /\ pc[Conversation] = "call_llm"
    /\ turns[Conversation] = 2
    /\ st[Conversation].city_name = Some("Unknown")
    /\ <<"reply", "none">> \in ev[Conversation]

PathStages == { "use_cached_context", "call_llm", "execute_tools", "format_output" }

\* C23: a step of a run that is in use_cached_context, call_llm,
\* execute_tools or format_output changes neither vector_store_match nor
\* cache_hit.
C23_FlagsFixedAfterCheck ==
    [][\A s \in Sessions :
          pc[s] \in PathStages =>
              /\ st'[s].vector_store_match = st[s].vector_store_match
              /\ st'[s].cache_hit = st[s].cache_hit]_vars

\* A cold-path turn has ended with a synthesized summary and both flags
\* still false.
C23_Witness ==
    /\ pc[Conversation] = "END"
    /\ ran[Conversation] = ColdPathOrder
    /\ st[Conversation].city_summary = Some("llm:summary")
    /\ st[Conversation].vector_store_match = Some(FALSE)
    /\ st[Conversation].cache_hit = Some(FALSE)

\* C24: when classification returns without reusing the previous entity,
\* weather_data and image_urls are empty, city_summary and final_output are
\* None and both flags are false; when the reply named no entity the entity
\* is Unknown.
C24_NewEntityClearsDerived ==
    [][\A s \in Sessions :
          ( /\ pc[s] = "classify_query"
            /\ pc'[s] = "check_vector_store"
            /\ ~( /\ <<"reply", "none">> \in ev'[s]
                  /\ TruthyStr(st[s].city_name)
                  /\ st[s].city_name # Some("Unknown") ) )
          => /\ st'[s].weather_data = Some(<<>>)
             /\ st'[s].image_urls = Some(<<>>)
             /\ st'[s].city_summary = None
             /\ st'[s].final_output = None
             /\ st'[s].vector_store_match = Some(FALSE)
             /\ st'[s].cache_hit = Some(FALSE)
             /\ <<"reply", "none">> \in ev'[s] => st'[s].city_name = Some("Unknown")]_vars

\* The second turn names Atlantis after a turn that failed to decide on
\* tools; nothing of the first turn's answer is left.
C24_Witness ==
    /\ turns[Conversation] = 2
    /\ ran[Conversation] = << "classify_query" >>
    /\ <<"reply", "entity">> \in ev[Conversation]
    /\ st[Conversation].city_name = Some("Atlantis")
    /\ st[Conversation].error_message = Some("decide failed")
    /\ st[Conversation].final_output = None
    /\ st[Conversation].city_summary = None

\* C25: a turn whose cache check reports a hit is on the cache path; when it
\* ends after both fetches returned, final_output has the nearest stored
\* document as its summary, a forecast of 7 points and a gallery of at least
\* 3 URLs.
C25_HitScenario ==
    \A s \in Sessions :
        /\ (Len(ran[s]) >= 2 /\ TruthyBool(st[s].vector_store_match)) => OnCachePath(s)
        /\ (pc[s] = "END" /\ Gathered(s, "use_cached_context") /\ ~SomeFailed(s)) =>
              /\ st[s].final_output # None
              /\ LET out == Get(st[s].final_output)
                 IN  /\ out.city_summary = NearestDocument(Strip(Get(st[s].city_name)))
                     /\ Len(out.weather_forecast) = 7
                     /\ Len(out.image_urls) >= 3

C25_Witness ==
    /\ pc[Conversation] = "END"
    /\ Gathered(Conversation, "use_cached_context")
    /\ ~SomeFailed(Conversation)
    /\ st[Conversation].city_name = Some("Paris")
    /\ st[Conversation].final_output # None
    /\ Get(st[Conversation].final_output).city_summary = "fact:Paris"

Catalogue == { "get_weather", "get_images", "web_search" }

\* C27: after execute_tools, a request whose name is outside the catalogue
\* has the exception "Unknown tool" as its result, whether or not the tools
\* are available, and its entry is the error object; the entries of the
\* other requests that succeeded carry their results and the run goes on to
\* format_output.
C27_UnknownToolIsFailure ==
    \A s \in Sessions :
        Gathered(s, "execute_tools") =>
            LET calls == Get(fan[s]).calls
                results == Get(fan[s]).results
                msgs == st[s].messages
                base == Len(msgs) - Len(calls)
            IN  \A i \in 1..Len(calls) :
                    calls[i].name \notin Catalogue =>
                        /\ results[i] = Exc(<<"Unknown tool", calls[i].name>>)
                        /\ msgs[base + i].tool_call_id = calls[i].id
                        /\ msgs[base + i].content =
                              JsonObject([ error |-> <<"Unknown tool", calls[i].name>>,
                                           tool |-> calls[i].name ])
                        /\ \A j \in 1..Len(calls) :
                              results[j].type = "list" =>
                                  Recovered(msgs[base + j].content) = results[j].val
                        /\ pc[s] \in { "format_output", "END" }

\* get_hotels was requested beside get_images, whose gallery is stored.
C27_Witness ==
    /\ pc[Conversation] = "format_output"
    /\ Gathered(Conversation, "execute_tools")
    /\ LET calls == Get(fan[Conversation]).calls
           results == Get(fan[Conversation]).results
       IN  /\ Len(calls) = 2
           /\ calls[1].name = "get_hotels"
           /\ results[1].type = "exception"
           /\ calls[2].name = "get_images"
           /\ results[2].type = "list"
    /\ st[Conversation].image_urls = Some(fetch_city_images("Paris"))

Succeeded(s, i, nm) ==
    Get(fan[s]).calls[i].name = nm /\ Get(fan[s]).results[i].type # "exception"

Kept(s, nm) == IF nm = "get_weather" THEN st[s].weather_data ELSE st[s].image_urls

\* C28: original statement.  After execute_tools, weather_data / image_urls
\* is the result of the first successful request of its kind.
C28_FirstSuccessKept ==
    \A s \in Sessions :
        Gathered(s, "execute_tools") =>
            \A nm \in { "get_weather", "get_images" } :
                \A i \in 1..Len(Get(fan[s]).calls) :
                    ( /\ Succeeded(s, i, nm)
                      /\ \A j \in 1..(i - 1) : ~Succeeded(s, j, nm) )
                    => Kept(s, nm) = Some(Get(fan[s]).results[i].val)

\* C28, amended: after execute_tools, weather_data / image_urls is the
\* result of the last successful request of its kind in request order.
C28_LastSuccessKept ==
    \A s \in Sessions :
        Gathered(s, "execute_tools") =>
            \A nm \in { "get_weather", "get_images" } :
                \A i \in 1..Len(Get(fan[s]).calls) :
                    ( /\ Succeeded(s, i, nm)
                      /\ \A j \in (i + 1)..Len(Get(fan[s]).calls) : ~Succeeded(s, j, nm) )
                    => Kept(s, nm) = Some(Get(fan[s]).results[i].val)

\* Forecasts of Paris and of Atlantis were fetched in this order; the one
\* of Atlantis is kept.
C28_Witness ==
    /\ pc[Conversation] = "format_output"
    /\ Gathered(Conversation, "execute_tools")
    /\ Len(Get(fan[Conversation]).calls) = 2
    /\ Succeeded(Conversation, 1, "get_weather")
    /\ Succeeded(Conversation, 2, "get_weather")
    /\ Get(fan[Conversation]).calls[1].args = "Paris"
    /\ Get(fan[Conversation]).calls[2].args = "Atlantis"
    /\ st[Conversation].weather_data = Some(fetch_weather_forecast("Atlantis"))

\* C29: a step of format_output on a state with a non-empty city_summary
\* makes no call and stores the record of that summary, weather_data and
\* image_urls; on a state without one it makes the synthesis call and, when
\* the call returns, stores the record of the synthesized text, weather_data
\* and image_urls.
C29_FormatOutput ==
    [][\A s \in Sessions :
          (pc[s] = "format_output" /\ pc'[s] = "END") =>
              LET weather == Get(st[s].weather_data)
                  images == Get(st[s].image_urls)
              IN  IF TruthyStr(st[s].city_summary)
                  THEN /\ ev'[s] = ev[s]
                       /\ st'[s].final_output =
                             Some(StructuredOutput(Get(st[s].city_summary), weather, images))
                  ELSE /\ <<"llm", "synth">> \in ev'[s] \ ev[s]
                       /\ <<"raised", "synth">> \notin ev'[s] =>
                             /\ st'[s].city_summary \notin { None, Some("") }
                             /\ Get(st'[s].city_summary) \in SynthesisTexts
                             /\ st'[s].final_output =
                                   Some(StructuredOutput(Get(st'[s].city_summary),
                                                         weather, images))]_vars

\* A cold-path turn has fetched a forecast and ended with a synthesized
\* summary.
C29_Witness ==
    /\ pc[Conversation] = "END"
    /\ <<"llm", "synth">> \in ev[Conversation]
    /\ st[Conversation].final_output # None
    /\ Get(st[Conversation].final_output).city_summary = "llm:summary"
    /\ Len(Get(st[Conversation].final_output).weather_forecast) = 7

\* C30: a step of call_llm makes the tool-decision call and starts no tool;
\* when the call returns, messages is the former list with one assistant
\* message appended and nothing else of the state changes; when it raises,
\* only error_message changes, to the error; and then the step of
\* execute_tools changes nothing and starts no tool.
C30_DecisionOnly ==
    [][\A s \in Sessions :
          /\ (pc[s] = "call_llm" /\ pc'[s] # pc[s]) =>
                /\ pc'[s] = "execute_tools"
                /\ fan'[s] = fan[s]
                /\ ev'[s] \ ev[s] \subseteq { <<"llm", "decide">>, <<"raised", "decide">> }
                /\ <<"llm", "decide">> \in ev'[s]
                /\ IF <<"raised", "decide">> \in ev'[s]
                   THEN /\ st'[s] = [ st[s] EXCEPT !.error_message = Some("decide failed") ]
                   ELSE /\ Len(st'[s].messages) = Len(st[s].messages) + 1
                        /\ Last(st'[s].messages).role = "ai"
                        /\ st'[s] = [ st[s] EXCEPT
                                        !.messages = Append(@, Last(st'[s].messages)) ]
          /\ (pc[s] = "execute_tools" /\ <<"raised", "decide">> \in ev[s]) =>
                /\ st'[s] = st[s]
                /\ fan'[s] = fan[s]
                /\ ev'[s] = ev[s]
                /\ pc'[s] \in { "execute_tools", "format_output" }]_vars

\* The tool decision failed and execute_tools has returned without a batch.
C30_Witness ==
    /\ pc[Conversation] = "format_output"
    /\ <<"raised", "decide">> \in ev[Conversation]
    /\ "execute_tools" \in Range(ran[Conversation])
    /\ fan[Conversation] = None
    /\ Len(st[Conversation].messages) = ui[Conversation]
    /\ st[Conversation].error_message = Some("decide failed")

\* C31: a step of execute_tools on a state whose latest message carries no
\* tool-invocation request starts no execution and changes nothing of the
\* state.
C31_NoRequestsNoOp ==
    [][\A s \in Sessions :
          ( /\ pc[s] = "execute_tools"
            /\ Last(st[s].messages).tool_calls = <<>> )
          => /\ st'[s] = st[s]
             /\ fan'[s] = fan[s]
             /\ ev'[s] = ev[s]]_vars

\* The model answered without requests and execute_tools has returned.
C31_Witness ==
    /\ pc[Conversation] = "format_output"
    /\ "execute_tools" \in Range(ran[Conversation])
    /\ Last(st[Conversation].messages).role = "ai"
    /\ Last(st[Conversation].messages).tool_calls = <<>>
    /\ fan[Conversation] = None
    /\ st[Conversation].weather_data = Some(<<>>)

SomePending(s) ==
    /\ fan[s] # None
    /\ \E i \in 1..Len(Get(fan[s]).calls) : Get(fan[s]).results[i].type = "pending"

\* C32: while an execution of the batch of use_cached_context or
\* execute_tools is still pending, no step changes the state of the run or
\* its checkpoint, and the stage does not return.
C32_FanInBarrier ==
    [][\A s \in Sessions :
          ( /\ pc[s] \in { "use_cached_context", "execute_tools" }
            /\ SomePending(s) )
          => /\ st'[s] = st[s]
             /\ pc'[s] = pc[s]
             /\ tid[s] # None => ckpt'[Get(tid[s])] = ckpt[Get(tid[s])]]_vars

\* The second execution of a batch of two has failed, the first is pending.
C32_Witness ==
    /\ pc[Conversation] = "execute_tools"
    /\ fan[Conversation] # None
    /\ Len(Get(fan[Conversation]).calls) = 2
    /\ Get(fan[Conversation]).results[1].type = "pending"
    /\ Get(fan[Conversation]).results[2].type = "exception"
    /\ Last(st[Conversation].messages).role = "ai"

\* C33: a step of a stage leaves the former messages as a prefix of the new
\* messages, and a step of a turn on the cache path leaves messages
\* unchanged.
C33_MessagesAppendOnly ==
    [][\A s \in Sessions :
          InFlight(s) =>
              /\ IsPrefix(st[s].messages, st'[s].messages)
              /\ OnCachePath(s) => st'[s].messages = st[s].messages]_vars

\* The human message, the assistant message and two tool messages.
C33_Witness ==
    /\ pc[Conversation] = "END"
    /\ ran[Conversation] = ColdPathOrder
    /\ Len(st[Conversation].messages) = 4
    /\ st[Conversation].messages[1].role = "human"
    /\ st[Conversation].messages[2].role = "ai"
    /\ st[Conversation].messages[4].role = "tool"

\* The results of the successful executions of tool nm in the batch of the
\* current turn.
FetchedThisTurn(s, nm) ==
    IF fan[s] = None THEN {}
    ELSE { Get(fan[s]).results[i].val :
             i \in { j \in 1..Len(Get(fan[s]).calls) : Succeeded(s, j, nm) } }

\* C34: at the end of a turn weather_data is empty or the result of one
\* get_weather execution of this turn, and image_urls is empty or the
\* result of one get_images execution of this turn.
C34_ReplacedWholesale ==
    \A s \in Sessions :
        pc[s] = "END" =>
            /\ st[s].weather_data # None
            /\ Get(st[s].weather_data) \in { <<>> } \cup FetchedThisTurn(s, "get_weather")
            /\ st[s].image_urls # None
            /\ Get(st[s].image_urls) \in { <<>> } \cup FetchedThisTurn(s, "get_images")

\* A follow-up turn on Paris that fetched only the gallery has ended: the
\* forecast of the first turn is gone.
C34_Witness ==
    /\ pc[Conversation] = "END"
    /\ turns[Conversation] = 2
    /\ ReusedEntity(Conversation)
    /\ st[Conversation].city_summary = Some("fact:Paris")
    /\ st[Conversation].weather_data = Some(<<>>)
    /\ st[Conversation].image_urls = Some(fetch_city_images("Paris"))

\* C35: at the end of a turn a final_output that is not None has the
\* turn's weather_data as its forecast and the turn's image_urls as its
\* gallery.
C35_OutputOfThisTurn ==
    \A s \in Sessions :
        (pc[s] = "END" /\ st[s].final_output # None) =>
            /\ Get(st[s].final_output).weather_forecast = OrEmpty(st[s].weather_data)
            /\ Get(st[s].final_output).image_urls = OrEmpty(st[s].image_urls)

\* C36: once check_vector_store has returned in a turn whose entity is not
\* Unknown, the store was queried in this turn and vector_store_match tells
\* whether that query returned a distance below Threshold, whatever the flag
\* was when the turn started.
C36_FlagWrittenThisTurn ==
    \A s \in Sessions :
        ( /\ Len(ran[s]) >= 2
          /\ st[s].city_name \notin { None, Some(""), Some("Unknown") } )
        => /\ <<"store", "query">> \in ev[s]
           /\ st[s].vector_store_match =
                 Some(/\ <<"raised", "query">> \notin ev[s]
                      /\ NearestDistance(Strip(Get(st[s].city_name))) < Threshold)

\* A follow-up turn on Paris, a hit in the previous turn, whose query
\* raised: the flag is false.
C36_Witness ==
    /\ turns[Conversation] = 2
    /\ ReusedEntity(Conversation)
    /\ Len(ran[Conversation]) = 2
    /\ st[Conversation].city_name = Some("Paris")
    /\ st[Conversation].city_summary = Some("fact:Paris")
    /\ <<"raised", "query">> \in ev[Conversation]
    /\ st[Conversation].vector_store_match = Some(FALSE)

\* C37: no stage returns twice in a turn, and a run that is in flight
\* eventually ends, at END or by the exception of the extraction call.
C37_TurnsTerminate ==
    /\ [](\A s \in Sessions : \A node \in Stages : Count(ran[s], node) <= 1)
    /\ \A s \in Sessions : InFlight(s) ~> (pc[s] \in { "END", "failed" })

\* The second turn of the conversation has ended on the cache path.
C37_Witness ==
    /\ pc[Conversation] = "END"
    /\ turns[Conversation] = 2
    /\ ran[Conversation] = CachePathOrder
    /\ AllReturned(Conversation)

\* C38: vector_store_match and cache_hit are equal in the state of every
\* run and in every checkpoint.
C38_FlagsAgree ==
    /\ \A s \in Sessions : st[s].vector_store_match = st[s].cache_hit
    /\ \A t \in ThreadIds :
          ckpt[t] # None => Get(ckpt[t]).vector_store_match = Get(ckpt[t]).cache_hit

\* Both flags are true when the cache path starts.
C38_Witness ==
    /\ pc[Conversation] = "use_cached_context"
    /\ st[Conversation].vector_store_match = Some(TRUE)
    /\ st[Conversation].cache_hit = Some(TRUE)
    /\ ckpt[Get(tid[Conversation])] = Some(st[Conversation])

\* C39: no step takes error_message from a value back to None, a new turn
\* starts with the error_message the previous one left, and a step that
\* changes error_message is one in which a call raised.
C39_ErrorNeverReset ==
    [][\A s \in Sessions :
          /\ st[s].error_message # None => st'[s].error_message # None
          /\ st'[s].error_message # st[s].error_message =>
                /\ InFlight(s)
                /\ Raised(s) # { l \in ev'[s] : l[1] = "raised" }]_vars

\* The second turn ended without a failure and still carries the error of
\* the first.
C39_Witness ==
    /\ pc[Conversation] = "END"
    /\ turns[Conversation] = 2
    /\ Raised(Conversation) = {}
    /\ st[Conversation].final_output # None
    /\ st[Conversation].error_message = Some("decide failed")

====
